---- MODULE Spec2Model ----
(***************************************************************************)
(* GPS L2CM tracker of piksi_firmware (src/src/track/track_gps_l2cm.c).    *)
(*                                                                         *)
(* Spec          one tracker instance driven by the tracking framework:    *)
(*               tracker_gps_l2cm_init / _update / _disable, plus writes   *)
(*               of the plain settings the update path reads.              *)
(* SpecHandover  the channel pool as seen by do_l1ca_to_l2cm_handover.     *)
(*                                                                         *)
(* Units: frequencies are kept in half-Hz (HalfHz) so that the      *)
(* 12.5 Hz of 250 / 20 is an integer; C/N0 is in whole dBHz; correlations  *)
(* are the correlator's integers.                                          *)
(***************************************************************************)
EXTENDS Integers, Sequences, FiniteSets, TLC

VARIABLES
  loop_params_stage,      \* static struct loop_params
  loop_params_string,     \* setting loop_params, as stored
  lock_detect_params,     \* static struct lock_detect_params
  lock_detect_params_string, \* setting lock_detect_params, as stored
  parse,                  \* what the last settings parser call did
  conversions,            \* what sscanf converts from each string written
  settings_at_init,       \* cn0_use, cn0_drop, alias_detect at the last init
  track_cn0_use_thres,    \* setting cn0_use
  track_cn0_drop_thres,   \* setting cn0_drop
  use_alias_detection,    \* setting alias_detect
  tracker_active,         \* gps_l2cm_trackers[i].active of the driven tracker
  data,                   \* gps_l2cm_tracker_data_t of the driven tracker
  common,                 \* tracker_common_data_t of the driven tracker
  last_read,              \* the correlator triplet the hardware delivered last
  updates_since_init,     \* number of update calls since the last init
  call,                   \* what the last operation did (calls it made)
  tracker_channels,       \* tracking slots of the channel pool
  decoder_channels,       \* decode slots of the channel pool
  handover                \* what the last handover did

paramStore == <<loop_params_string, lock_detect_params,
                lock_detect_params_string, conversions>>
trackVars == <<loop_params_stage, loop_params_string, lock_detect_params,
               lock_detect_params_string, parse, conversions,
               settings_at_init,
               track_cn0_use_thres, track_cn0_drop_thres,
               use_alias_detection, tracker_active, data, common, last_read,
               updates_since_init, call>>
poolVars == <<tracker_channels, decoder_channels, handover>>
vars == <<loop_params_stage, loop_params_string, lock_detect_params,
          lock_detect_params_string, parse, conversions, settings_at_init,
          track_cn0_use_thres, track_cn0_drop_thres, use_alias_detection, tracker_active, data, common, last_read,
          updates_since_init, call, tracker_channels, decoder_channels,
          handover>>

(***************************************************************************)
(* Program constants                                                       *)
(***************************************************************************)
L2C_COHERENT_INTEGRATION_TIME_MS == 20
TRACK_CN0_USE_THRES_DEFAULT == 31
TRACK_CN0_DROP_THRES_DEFAULT == 31
GPS_CA_CHIPPING_RATE == 1023000
ALIAS_THRESHOLD_NUMERATOR == 250
\* a frequency in Hz, in the model's half-Hz unit
HalfHz(hz) == 2 * hz

(***************************************************************************)
(* Bounds of the model                                                     *)
(***************************************************************************)
MaxLongCycles == 2      \* LONG update calls a channel makes between two inits
NumChannels == 3        \* nap_track_n_channels, set by the hardware at boot
MaxSettingUpdates == 2  \* update calls after an init, in the settings runs

(***************************************************************************)
(* Integer helpers of C                                                    *)
(***************************************************************************)
Abs(x) == IF x < 0 THEN -x ELSE x

\* C integer division: truncation toward zero
CDiv(a, b) == IF (a >= 0) = (b > 0) THEN Abs(a) \div Abs(b)
              ELSE -(Abs(a) \div Abs(b))

U8(x) == x % 256

(***************************************************************************)
(* Values the collaborators deliver (correlator, libswiftnav estimators)   *)
(***************************************************************************)
Corr(i, q) == [I |-> i, Q |-> q]

ZeroCs == <<Corr(0, 0), Corr(0, 0), Corr(0, 0)>>

\* the n-th correlator triplet <<early, prompt, late>>; every component is
\* different and the prompt changes sign with n
Read(n) == LET sgn == IF n % 2 = 0 THEN -1 ELSE 1
           IN <<Corr(7 * n, -3 * n),
                Corr(sgn * (100 * n + 1), 20 * n),
                Corr(-5 * n, sgn * 9 * n)>>

CorrReads == {Read(1), Read(2)}

\* cn0_est() results [dBHz] and the values the cn0 settings are written with
Cn0Values == {30, 31, 32}
Cn0ThresValues == {31, 32}

\* lock_detect_update() results
LockOutputs == [outp : BOOLEAN, outo : BOOLEAN]

\* aided_tl_update() results: carrier frequency [half-Hz], code frequency
TlOutputs == {[carr_freq |-> -1001, code_freq |-> -2, carr_filt_y |-> -1001]}

\* alias_detect_second() results [half-Hz]: 0 Hz, 12 Hz, 12.5 Hz, -13 Hz
ErrValues == {0, 24, 25, -26}

\* Doppler and C/N0 a channel is seeded with by the tracking framework
SeedFreqs == {2000}
SeedCn0s == {TRACK_CN0_USE_THRES_DEFAULT}

(***************************************************************************)
(* Records                                                                 *)
(***************************************************************************)
\* the float 0.0, as a numeral
FloatZero == <<"0">>

\* the loop filter tuning aided_tl_init() loads into the filter state
ZeroTuning == [code_bw |-> FloatZero, code_zeta |-> FloatZero,
               code_k |-> FloatZero, carr_to_code |-> FloatZero,
               carr_bw |-> FloatZero, carr_zeta |-> FloatZero,
               carr_k |-> FloatZero, carr_fll_aid_gain |-> FloatZero]

ZeroTl == [carr_freq |-> 0, code_freq |-> 0, carr_filt_y |-> 0,
           params |-> ZeroTuning]

\* memset(data, 0, sizeof(gps_l2cm_tracker_data_t))
ZeroData == [tl_state |-> ZeroTl,
             cs |-> ZeroCs,
             int_ms |-> 0,
             short_cycle |-> FALSE,
             stage |-> 0,
             alias_detect |-> [first_I |-> 0, first_Q |-> 0],
             lock_detect |-> [outp |-> FALSE, outo |-> FALSE,
                              k1 |-> FloatZero, k2 |-> FloatZero,
                              lp |-> 0, lo |-> 0]]

ZeroCommon == [carrier_freq |-> 0,
               code_phase_rate |-> 0,
               cn0 |-> 0,
               update_count |-> 0,
               cn0_above_drop_thres_count |-> 0,
               cn0_below_use_thres_count |-> 0,
               ld_opti_locked_count |-> 0,
               ld_pess_unlocked_count |-> 0,
               mode_change_count |-> 0]

\* the record of one operation: the collaborator calls it made, in order
\* (steps), with their arguments
NoCall == [op |-> "none",
           branch |-> "NONE",
           steps |-> <<>>,
           ambiguity |-> <<>>,
           retunes |-> <<>>,
           s |-> ZeroCs,
           l |-> ZeroCs,
           tow_int_ms |-> 0,
           bit_sync_in |-> 0,
           cn0_in |-> Corr(0, 0),
           ld_in |-> Corr(0, 0),
           sent |-> ZeroCs,
           tl_in |-> ZeroCs,
           tl_updated |-> ZeroTl,
           last_outp |-> FALSE,
           alias_ran |-> FALSE,
           alias_in |-> Corr(0, 0),
           err |-> 0,
           alias_fired |-> FALSE,
           synced |-> FALSE]

\* the record of one settings parser call
NoParse == [op |-> "none", val |-> <<>>, count |-> 0, ret |-> FALSE,
            log |-> "none"]

(***************************************************************************)
(* Setting strings and sscanf                                              *)
(*                                                                         *)
(* A string is the sequence of its characters.  A %f conversion is kept    *)
(* as the numeral it read; a %u conversion as the number it read.  The     *)
(* input strings carry no '-' sign, no "inf"/"nan" and no hexadecimal      *)
(* numerals.                                                               *)
(***************************************************************************)
\* #define LOOP_PARAMS_MED "(20 ms, (1, 0.7, 1, 1200), (13, 0.7, 1, 5))"
LOOP_PARAMS_MED ==
  <<"(", "2", "0", " ", "m", "s", ",", " ", "(", "1", ",", " ", "0", ".",
    "7", ",", " ", "1", ",", " ", "1", "2", "0", "0", ")", ",", " ", "(",
    "1", "3", ",", " ", "0", ".", "7", ",", " ", "1", ",", " ", "5", ")",
    ")">>

\* #define LD_PARAMS "0.0247, 1.5, 50, 240"
LD_PARAMS ==
  <<"0", ".", "0", "2", "4", "7", ",", " ", "1", ".", "5", ",", " ", "5",
    "0", ",", " ", "2", "4", "0">>

\* #define LD_PARAMS_DISABLE "0.02, 1e-6, 1, 1"
LD_PARAMS_DISABLE ==
  <<"0", ".", "0", "2", ",", " ", "1", "e", "-", "6", ",", " ", "1", ",",
    " ", "1">>

\* another tuning, written without blanks
LoopParamsNarrow ==
  <<"(", "2", "0", " ", "m", "s", ",", "(", "1", ",", "0", ".", "7", ",",
    "1", ",", "1", "2", "0", "0", ")", ",", "(", "1", "0", ",", "0", ".",
    "7", ",", "1", ",", "5", ")", ")">>

\* 10 ms instead of 20 ms
LoopParams10ms ==
  <<"(", "1", "0", " ", "m", "s", ",", " ", "(", "1", ",", " ", "0", ".",
    "7", ",", " ", "1", ",", " ", "1", "2", "0", "0", ")", ",", " ", "(",
    "1", "3", ",", " ", "0", ".", "7", ",", " ", "1", ",", " ", "5", ")",
    ")">>

\* 256 ms
LoopParams256ms ==
  <<"(", "2", "5", "6", " ", "m", "s", ",", " ", "(", "1", ",", " ", "0",
    ".", "7", ",", " ", "1", ",", " ", "1", "2", "0", "0", ")", ",", " ",
    "(", "1", "3", ",", " ", "0", ".", "7", ",", " ", "1", ",", " ", "5",
    ")", ")">>

\* 276 ms
LoopParams276ms ==
  <<"(", "2", "7", "6", " ", "m", "s", ",", " ", "(", "1", ",", " ", "0",
    ".", "7", ",", " ", "1", ",", " ", "1", "2", "0", "0", ")", ",", " ",
    "(", "1", "3", ",", " ", "0", ".", "7", ",", " ", "1", ",", " ", "5",
    ")", ")">>

\* the last number is missing
LoopParamsCut ==
  <<"(", "2", "0", " ", "m", "s", ",", " ", "(", "2", ",", " ", "0", ".",
    "7", ",", " ", "1", ",", " ", "1", "2", "0", "0", ")", ",", " ", "(",
    "1", "0", ",", " ", "0", ".", "7", ",", " ", "1", ",", " ", ")">>

\* the fourth number is missing
LdParamsCut ==
  <<"0", ".", "0", "2", ",", " ", "1", "e", "-", "6", ",", " ", "7">>

\* 25 characters; 65776 = 65536 + 240
LdParamsLong ==
  <<"0", ".", "0", "2", "4", "7", " ", ",", " ", "1", ".", "5", " ", ",",
    " ", "5", "0", " ", ",", " ", "6", "5", "7", "7", "6">>

\* the strings the settings are written with
LoopParamsInputs == {LOOP_PARAMS_MED, LoopParamsNarrow, LoopParams10ms,
                     LoopParams256ms, LoopParams276ms, LoopParamsCut}
LockDetectInputs == {LD_PARAMS, LD_PARAMS_DISABLE, LdParamsCut, LdParamsLong}

\* static char loop_params_string[120], lock_detect_params_string[24]
LOOP_PARAMS_STRING_LEN == 120
LOCK_DETECT_PARAMS_STRING_LEN == 24

Digits == {"0", "1", "2", "3", "4", "5", "6", "7", "8", "9"}

DigitVal(c) ==
  CASE c = "0" -> 0 [] c = "1" -> 1 [] c = "2" -> 2 [] c = "3" -> 3
    [] c = "4" -> 4 [] c = "5" -> 5 [] c = "6" -> 6 [] c = "7" -> 7
    [] c = "8" -> 8 [] c = "9" -> 9

IsSpace(c) == c \in {" ", "\t", "\n"}

\* the index of the first character at or after i that is no white space
RECURSIVE SkipWs(_, _)
SkipWs(s, i) ==
  IF i <= Len(s) /\ IsSpace(s[i]) THEN SkipWs(s, i + 1) ELSE i

\* the index after the run of digits that starts at i
RECURSIVE DigitsEnd(_, _)
DigitsEnd(s, i) ==
  IF i <= Len(s) /\ s[i] \in Digits THEN DigitsEnd(s, i + 1) ELSE i

\* the number written by the digits s[i] .. s[j - 1]
RECURSIVE NumVal(_, _, _, _)
NumVal(s, i, j, acc) ==
  IF i >= j THEN acc ELSE NumVal(s, i + 1, j, 10 * acc + DigitVal(s[i]))

NoConv == [ok |-> FALSE, next |-> 0, val |-> 0]

\* %u (modulus 0) and %hu (modulus 65536): white space, an optional '+',
\* digits
ScanUnsigned(s, i, modulus) ==
  LET a == SkipWs(s, i)
      p == IF a <= Len(s) /\ s[a] = "+" THEN a + 1 ELSE a
      e == DigitsEnd(s, p)
      v == NumVal(s, p, e, 0)
  IN IF e = p THEN NoConv
     ELSE [ok |-> TRUE, next |-> e,
           val |-> IF modulus = 0 THEN v ELSE v % modulus]

\* %f: white space, an optional sign, digits with an optional fraction, an
\* optional exponent
ScanFloat(s, i) ==
  LET a  == SkipWs(s, i)
      p  == IF a <= Len(s) /\ s[a] \in {"+", "-"} THEN a + 1 ELSE a
      e1 == DigitsEnd(s, p)
      e2 == IF e1 <= Len(s) /\ s[e1] = "." THEN DigitsEnd(s, e1 + 1) ELSE e1
      nd == (e1 - p) + (IF e2 > e1 THEN e2 - e1 - 1 ELSE 0)
      x  == IF e2 <= Len(s) /\ s[e2] \in {"e", "E"} THEN e2 + 1 ELSE e2
      xs == IF x > e2 /\ x <= Len(s) /\ s[x] \in {"+", "-"} THEN x + 1 ELSE x
      xe == IF x > e2 THEN DigitsEnd(s, xs) ELSE e2
      e  == IF x > e2 /\ xe > xs THEN xe ELSE e2
  IN IF nd = 0 THEN NoConv
     ELSE [ok |-> TRUE, next |-> e, val |-> SubSeq(s, a, e - 1)]

\* sscanf(s, fmt, ...): the values converted, in order, up to the first
\* directive that does not match; its return value is their number (an
\* input that ends before the first conversion returns EOF, which is
\* below every count asked for, like 0)
RECURSIVE Sscanf(_, _, _, _, _)
Sscanf(fmt, fi, s, si, vals) ==
  IF fi > Len(fmt) THEN vals
  ELSE LET d == fmt[fi]
       IN CASE d = " " -> Sscanf(fmt, fi + 1, s, SkipWs(s, si), vals)
            [] d \in {"%u", "%hu"} ->
                 LET r == ScanUnsigned(s, si, IF d = "%u" THEN 0 ELSE 65536)
                 IN IF r.ok
                    THEN Sscanf(fmt, fi + 1, s, r.next, Append(vals, r.val))
                    ELSE vals
            [] d = "%f" ->
                 LET r == ScanFloat(s, si)
                 IN IF r.ok
                    THEN Sscanf(fmt, fi + 1, s, r.next, Append(vals, r.val))
                    ELSE vals
            [] OTHER ->
                 IF si <= Len(s) /\ s[si] = d
                 THEN Sscanf(fmt, fi + 1, s, si + 1, vals)
                 ELSE vals

FourFloats == <<"%f", " ", ",", " ", "%f", " ", ",", " ",
                "%f", " ", ",", " ", "%f">>

\* "( %u ms , ( %f , %f , %f , %f ) , ( %f , %f , %f , %f ) ) "
LoopParamsFormat ==
  <<"(", " ", "%u", " ", "m", "s", " ", ",", " ", "(", " ">>
  \o FourFloats \o <<" ", ")", " ", ",", " ", "(", " ">>
  \o FourFloats \o <<" ", ")", " ", ")", " ">>

\* "%f , %f , %" SCNu16 " , %" SCNu16
LockDetectFormat ==
  <<"%f", " ", ",", " ", "%f", " ", ",", " ", "%hu", " ", ",", " ", "%hu">>

\* strncpy(s->addr, val, s->len); ptr[s->len - 1] = '\0'
StoreString(val, len) ==
  IF len > 0 /\ Len(val) > len - 1 THEN SubSeq(val, 1, len - 1) ELSE val

\* mutant: the string is stored before the input is validated
SavedStringAlways(old, val, ok, len) == StoreString(val, len)

\* the setting's storage after a parser call: written on success only
SavedString(old, val, ok, len) ==
  IF ok THEN StoreString(val, len) ELSE old

\* l->coherent_ms = tmp, an unsigned int stored into a u8
CoherentMs(tmp) == U8(tmp)

\* mutant: any length but zero passes
CoherentMsNonZero(ms) == ms # 0

\* l->coherent_ms != L2C_COHERENT_INTEGRATION_TIME_MS is refused
CoherentMsValid(ms) == ms = L2C_COHERENT_INTEGRATION_TIME_MS

\* struct loop_params as filled from the nine conversions
LoopParamsOf(v) ==
  [coherent_ms |-> CoherentMs(v[1]),
   code_bw |-> v[2], code_zeta |-> v[3], code_k |-> v[4],
   carr_to_code |-> v[5],
   carr_bw |-> v[6], carr_zeta |-> v[7], carr_k |-> v[8],
   carr_fll_aid_gain |-> v[9]]

\* struct lock_detect_params as filled from the four conversions
LockDetectParamsOf(v) == [k1 |-> v[1], k2 |-> v[2], lp |-> v[3], lo |-> v[4]]

LoopParamsCount == 9
LockDetectParamsCount == 4

\* what the sscanf call of its parser converts from each input string; the
\* C library answers the same string the same way every time
SscanfResults ==
  [val \in LoopParamsInputs \cup LockDetectInputs |->
     IF val \in LoopParamsInputs
     THEN Sscanf(LoopParamsFormat, 1, val, 1, <<>>)
     ELSE Sscanf(LockDetectFormat, 1, val, 1, <<>>)]

(***************************************************************************)
(* tracker_gps_l2cm_init                                                   *)
(***************************************************************************)
\* common data as seeded by the tracking framework before the tracker's init
CommonDataInit(cf, cn0) ==
  [ZeroCommon EXCEPT !.carrier_freq = cf,
                     !.code_phase_rate = GPS_CA_CHIPPING_RATE,
                     !.cn0 = cn0]

\* the tuning arguments of aided_tl_init()
LoopTuning(l) ==
  [code_bw |-> l.code_bw, code_zeta |-> l.code_zeta, code_k |-> l.code_k,
   carr_to_code |-> l.carr_to_code, carr_bw |-> l.carr_bw,
   carr_zeta |-> l.carr_zeta, carr_k |-> l.carr_k,
   carr_fll_aid_gain |-> l.carr_fll_aid_gain]

\* aided_tl_init(): both filters start from the given frequencies, with the
\* given tuning
AidedTlInit(code_freq, carr_freq, l) ==
  [carr_freq |-> carr_freq, code_freq |-> code_freq, carr_filt_y |-> carr_freq,
   params |-> LoopTuning(l)]

\* lock_detect_init(): outputs cleared, constants loaded
LockDetectInit(p) ==
  [outp |-> FALSE, outo |-> FALSE,
   k1 |-> p.k1, k2 |-> p.k2, lp |-> p.lp, lo |-> p.lo]

InitShortCycle == TRUE

TrackerInitData(c, l, p) ==
  [ZeroData EXCEPT
     !.int_ms = U8(l.coherent_ms),
     !.tl_state = AidedTlInit(c.code_phase_rate - GPS_CA_CHIPPING_RATE,
                              c.carrier_freq, l),
     !.short_cycle = InitShortCycle,
     !.lock_detect = LockDetectInit(p)]

\* the plain settings as they are now
PlainSettings == [cn0_use |-> track_cn0_use_thres,
                  cn0_drop |-> track_cn0_drop_thres,
                  alias_detect |-> use_alias_detection]

TrackerInit ==
  /\ ~tracker_active
  /\ \E cf \in SeedFreqs, cn0 \in SeedCn0s :
       LET c == CommonDataInit(cf, cn0)
       IN /\ common' = c
          /\ data' = TrackerInitData(c, loop_params_stage,
                                     lock_detect_params)
  /\ tracker_active' = TRUE
  /\ updates_since_init' = 0
  /\ call' = [NoCall EXCEPT !.op = "init",
                            !.steps = <<"memset", "ambiguity_unknown",
                                        "aided_tl_init", "cn0_est_init",
                                        "lock_detect_init",
                                        "alias_detect_init">>,
                            !.ambiguity = <<"init">>]
  /\ UNCHANGED <<loop_params_stage, track_cn0_use_thres, track_cn0_drop_thres,
                 use_alias_detection, last_read>>
  /\ UNCHANGED paramStore
  /\ parse' = NoParse
  /\ UNCHANGED poolVars

tracker_gps_l2cm_init ==
  /\ TrackerInit
  /\ UNCHANGED settings_at_init

\* the same init, observed: the plain settings in force are remembered
InitObserved ==
  /\ TrackerInit
  /\ settings_at_init' = PlainSettings

(***************************************************************************)
(* tracker_gps_l2cm_disable                                                *)
(***************************************************************************)
tracker_gps_l2cm_disable ==
  /\ tracker_active
  /\ tracker_active' = FALSE
  /\ call' = [NoCall EXCEPT !.op = "disable"]
  /\ UNCHANGED <<loop_params_stage, track_cn0_use_thres, track_cn0_drop_thres,
                 use_alias_detection, data, common, last_read,
                 updates_since_init>>
  /\ UNCHANGED paramStore
  /\ UNCHANGED settings_at_init
  /\ parse' = NoParse
  /\ UNCHANGED poolVars

(***************************************************************************)
(* tracker_gps_l2cm_update: the pieces                                     *)
(***************************************************************************)
\* alias_detect_first(): remember the prompt of the short cycle
AliasDetectFirst(a, I, Q) == [a EXCEPT !.first_I = I, !.first_Q = Q]

\* mutant: the long read replaces the accumulator
AccumulateOverwrite(acc, cs) == cs

\* accumulate short cycle correlations with long ones
Accumulate(acc, cs) ==
  [i \in 1..3 |-> Corr(acc[i].I + cs[i].I, acc[i].Q + cs[i].Q)]

\* u8 int_ms = data->short_cycle ? 1 : (data->int_ms - 1)
TowIntMs(short_cycle, int_ms) == IF short_cycle THEN 1 ELSE U8(int_ms - 1)

\* mutant: the flag is never flipped
NextShortCycleStuck(short_cycle) == short_cycle

\* data->short_cycle = !data->short_cycle
NextShortCycle(short_cycle) == ~short_cycle

\* mutant: the short retune passes the 1 ms of the short cycle
ShortRetuneOneMs(c) ==
  [carrier_freq |-> c.carrier_freq,
   code_phase_rate |-> c.code_phase_rate,
   int_ms |-> 1]

\* tracker_retune(..., carrier_freq, code_phase_rate, 0)
ShortRetune(c) ==
  [carrier_freq |-> c.carrier_freq,
   code_phase_rate |-> c.code_phase_rate,
   int_ms |-> 0]

\* mutant: the long retune passes the full integration length
LongRetuneFullLength(c, int_ms) ==
  [carrier_freq |-> c.carrier_freq,
   code_phase_rate |-> c.code_phase_rate,
   int_ms |-> U8(int_ms)]

\* tracker_retune(..., carrier_freq, code_phase_rate, data->int_ms - 1)
LongRetune(c, int_ms) ==
  [carrier_freq |-> c.carrier_freq,
   code_phase_rate |-> c.code_phase_rate,
   int_ms |-> U8(int_ms - 1)]

\* cn0_est(&data->cn0_est, cs[1].I/data->int_ms, cs[1].Q/data->int_ms)
Cn0Input(cs, int_ms) == Corr(CDiv(cs[2].I, int_ms), CDiv(cs[2].Q, int_ms))

Cn0AboveDrop(cn0, thres) == cn0 > thres

\* mutant: <= for <
Cn0BelowUseOrEqual(cn0, thres) == cn0 <= thres

Cn0BelowUse(cn0, thres) == cn0 < thres

\* mutant: the use threshold is the one that was in force at the init
UseThresAtInit == settings_at_init.cn0_use

\* the use threshold an update call compares with: the setting, as it is
UseThresInForce == track_cn0_use_thres

Cn0Counters(c, cn0, drop_thres, use_thres) ==
  [c EXCEPT
     !.cn0 = cn0,
     !.cn0_above_drop_thres_count =
        IF Cn0AboveDrop(cn0, drop_thres) THEN c.update_count ELSE @,
     !.cn0_below_use_thres_count =
        IF Cn0BelowUse(cn0, use_thres) THEN c.update_count ELSE @]

LockCounters(c, ld) ==
  [c EXCEPT
     !.ld_opti_locked_count = IF ld.outo THEN c.update_count ELSE @,
     !.ld_pess_unlocked_count = IF ~ld.outp THEN c.update_count ELSE @]

\* mutant: last_outp is not looked at
PllStressNoEdge(last_outp, ld) == ~ld.outp

\* if (last_outp && !data->lock_detect.outp)
PllStress(last_outp, ld) == last_outp /\ ~ld.outp

\* cs2[i] = cs[2-i]
ReverseCs(cs) == [i \in 1..3 |-> cs[4 - i]]

\* mutant: the update reloads the constants from the setting
LockDetectUpdateReload(l, ld) ==
  [outp |-> ld.outp, outo |-> ld.outo,
   k1 |-> lock_detect_params.k1, k2 |-> lock_detect_params.k2,
   lp |-> lock_detect_params.lp, lo |-> lock_detect_params.lo]

\* lock_detect_update(): new outputs, the constants stay
LockDetectUpdate(l, ld) == [l EXCEPT !.outp = ld.outp, !.outo = ld.outo]

\* aided_tl_update(): new filter outputs, the tuning stays
AidedTlUpdate(s, tl) ==
  [s EXCEPT !.carr_freq = tl.carr_freq,
            !.code_freq = tl.code_freq,
            !.carr_filt_y = tl.carr_filt_y]

\* common_data->carrier_freq / code_phase_rate from the loop filter
LoopFilterOutputs(c, tl) ==
  [c EXCEPT !.carrier_freq = tl.carr_freq,
            !.code_phase_rate = tl.code_freq + GPS_CA_CHIPPING_RATE]

\* mutant: the setting is not looked at
AliasGateNoSetting(use, ld) == ld.outp \/ ld.outo

\* if (use_alias_detection && (outp || outo))
AliasGate(use, ld) == use /\ (ld.outp \/ ld.outo)

\* (cs[1].I - first_I) / (int_ms - 1), same for Q
AliasInput(cs, a, int_ms) ==
  Corr(CDiv(cs[2].I - a.first_I, int_ms - 1),
       CDiv(cs[2].Q - a.first_Q, int_ms - 1))

\* 250 / data->int_ms: a division of two integers
AliasThreshold(int_ms) == HalfHz(CDiv(ALIAS_THRESHOLD_NUMERATOR, int_ms))

\* if (fabs(err) > (250 / data->int_ms))
AliasErrExceeds(err, int_ms) == Abs(err) > AliasThreshold(int_ms)

\* mutant: the filter state carr_filt.y is not re-seeded
AliasCorrectNoFilter(tl, err) == [tl EXCEPT !.carr_freq = tl.carr_freq + err]

\* tl_state.carr_freq += err; tl_state.carr_filt.y = tl_state.carr_freq
AliasCorrect(tl, err) ==
  [tl EXCEPT !.carr_freq = tl.carr_freq + err,
             !.carr_filt_y = tl.carr_freq + err]

\* if (outo && tracker_bit_aligned(context))
Synced(ld, aligned) == ld.outo /\ aligned

ModeChange(c, fired, synced) ==
  [c EXCEPT !.mode_change_count =
              IF fired \/ synced THEN c.update_count ELSE @]

\* mutant: the count advances by the length of the long cycle only
AdvanceUpdateCountLongOnly(c, int_ms) ==
  [c EXCEPT !.update_count = @ + (int_ms - 1)]

\* common_data->update_count += data->int_ms
AdvanceUpdateCount(c, int_ms) == [c EXCEPT !.update_count = @ + int_ms]

\* the bound of the model on update_count
MayRunLong == common.update_count + data.int_ms
                <= MaxLongCycles * L2C_COHERENT_INTEGRATION_TIME_MS

(***************************************************************************)
(* tracker_gps_l2cm_update, short cycle                                    *)
(***************************************************************************)
UpdateShortCycle ==
  /\ tracker_active
  /\ data.short_cycle
  /\ \E read \in CorrReads :
       /\ data' = [data EXCEPT
                     !.cs = read,
                     !.alias_detect =
                        AliasDetectFirst(@, read[2].I, read[2].Q),
                     !.short_cycle = NextShortCycle(@)]
       /\ last_read' = read
       /\ call' = [NoCall EXCEPT
                     !.op = "update",
                     !.branch = "SHORT",
                     !.steps = <<"correlations_read", "alias_detect_first",
                                 "tow_update", "retune">>,
                     !.s = read,
                     !.tow_int_ms = TowIntMs(data.short_cycle, data.int_ms),
                     !.retunes = <<ShortRetune(common)>>]
  /\ updates_since_init' = updates_since_init + 1
  /\ UNCHANGED <<loop_params_stage, track_cn0_use_thres, track_cn0_drop_thres,
                 use_alias_detection, tracker_active, common>>
  /\ UNCHANGED paramStore
  /\ UNCHANGED settings_at_init
  /\ parse' = NoParse
  /\ UNCHANGED poolVars

(***************************************************************************)
(* tracker_gps_l2cm_update, long cycle                                     *)
(***************************************************************************)
\* mutant: the alias detector is evaluated before the loop filter is run
LongStepsAliasFirst(gate, outo) ==
  <<"correlations_read", "accumulate", "tow_update", "bit_sync_update",
    "cn0_est", "lock_detect_update", "correlations_send">>
  \o (IF gate THEN <<"alias_detect_second">> ELSE <<>>)
  \o <<"aided_tl_update">>
  \o (IF outo THEN <<"bit_aligned">> ELSE <<>>)
  \o <<"retune">>

\* the collaborator calls of a long cycle, in the order of the code
LongSteps(gate, outo) ==
  <<"correlations_read", "accumulate", "tow_update", "bit_sync_update",
    "cn0_est", "lock_detect_update", "correlations_send", "aided_tl_update">>
  \o (IF gate THEN <<"alias_detect_second">> ELSE <<>>)
  \o (IF outo THEN <<"bit_aligned">> ELSE <<>>)
  \o <<"retune">>

LongCycle(read, cn0, ld, tl, err, aligned) ==
  LET cs       == Accumulate(data.cs, read)
      c1       == AdvanceUpdateCount(common, data.int_ms)
      c2       == Cn0Counters(c1, cn0, track_cn0_drop_thres,
                              UseThresInForce)
      below    == Cn0BelowUse(cn0, UseThresInForce)
      last_outp == data.lock_detect.outp
      c3       == LockCounters(c2, ld)
      stress   == PllStress(last_outp, ld)
      tlu      == AidedTlUpdate(data.tl_state, tl)
      c4       == LoopFilterOutputs(c3, tlu)
      gate     == AliasGate(use_alias_detection, ld)
      fired    == gate /\ AliasErrExceeds(err, data.int_ms)
      synced   == Synced(ld, aligned)
      c5       == ModeChange(c4, fired, synced)
      tl_final == IF fired THEN AliasCorrect(tlu, err) ELSE tlu
  IN /\ data' = [data EXCEPT
                   !.cs = cs,
                   !.short_cycle = NextShortCycle(@),
                   !.lock_detect = LockDetectUpdate(@, ld),
                   !.tl_state = tl_final]
     /\ common' = c5
     /\ last_read' = read
     /\ call' = [NoCall EXCEPT
                   !.op = "update",
                   !.branch = "LONG",
                   !.steps = LongSteps(gate, ld.outo),
                   !.ambiguity = (IF below THEN <<"cn0">> ELSE <<>>)
                                 \o (IF stress THEN <<"pll">> ELSE <<>>)
                                 \o (IF fired THEN <<"alias">> ELSE <<>>),
                   !.s = last_read,
                   !.l = read,
                   !.tow_int_ms = TowIntMs(data.short_cycle, data.int_ms),
                   !.bit_sync_in = cs[2].I,
                   !.cn0_in = Cn0Input(cs, data.int_ms),
                   !.ld_in = cs[2],
                   !.sent = cs,
                   !.tl_in = ReverseCs(cs),
                   !.tl_updated = tlu,
                   !.last_outp = last_outp,
                   !.alias_ran = gate,
                   !.alias_in = IF gate
                                THEN AliasInput(cs, data.alias_detect,
                                                data.int_ms)
                                ELSE Corr(0, 0),
                   !.err = IF gate THEN err ELSE 0,
                   !.alias_fired = fired,
                   !.synced = synced,
                   !.retunes = <<LongRetune(c5, data.int_ms)>>]

UpdateLongCycle ==
  /\ tracker_active
  /\ ~data.short_cycle
  /\ MayRunLong
  /\ \E read \in CorrReads, cn0 \in Cn0Values, ld \in LockOutputs,
        tl \in TlOutputs :
       \E err \in (IF AliasGate(use_alias_detection, ld)
                   THEN ErrValues ELSE {0}),
          aligned \in (IF ld.outo THEN BOOLEAN ELSE {FALSE}) :
         LongCycle(read, cn0, ld, tl, err, aligned)
  /\ updates_since_init' = updates_since_init + 1
  /\ UNCHANGED <<loop_params_stage, track_cn0_use_thres, track_cn0_drop_thres,
                 use_alias_detection, tracker_active>>
  /\ UNCHANGED paramStore
  /\ UNCHANGED settings_at_init
  /\ parse' = NoParse
  /\ UNCHANGED poolVars

tracker_gps_l2cm_update == UpdateShortCycle \/ UpdateLongCycle

\* the update calls within the shorter horizon of the settings runs
UpdateEarly ==
  /\ updates_since_init < MaxSettingUpdates
  /\ tracker_gps_l2cm_update

(***************************************************************************)
(* Writes of the plain settings (SETTING: the framework stores the value)  *)
(***************************************************************************)
WriteCn0Use ==
  /\ \E v \in Cn0ThresValues :
       /\ v # track_cn0_use_thres
       /\ track_cn0_use_thres' = v
  /\ call' = [NoCall EXCEPT !.op = "setting"]
  /\ UNCHANGED <<loop_params_stage, track_cn0_drop_thres, use_alias_detection,
                 tracker_active, data, common, last_read, updates_since_init>>
  /\ UNCHANGED paramStore
  /\ UNCHANGED settings_at_init
  /\ parse' = NoParse
  /\ UNCHANGED poolVars

WriteCn0Drop ==
  /\ \E v \in Cn0ThresValues :
       /\ v # track_cn0_drop_thres
       /\ track_cn0_drop_thres' = v
  /\ call' = [NoCall EXCEPT !.op = "setting"]
  /\ UNCHANGED <<loop_params_stage, track_cn0_use_thres, use_alias_detection,
                 tracker_active, data, common, last_read, updates_since_init>>
  /\ UNCHANGED paramStore
  /\ UNCHANGED settings_at_init
  /\ parse' = NoParse
  /\ UNCHANGED poolVars

WriteAliasDetect ==
  /\ use_alias_detection' = ~use_alias_detection
  /\ call' = [NoCall EXCEPT !.op = "setting"]
  /\ UNCHANGED <<loop_params_stage, track_cn0_use_thres, track_cn0_drop_thres,
                 tracker_active, data, common, last_read, updates_since_init>>
  /\ UNCHANGED paramStore
  /\ UNCHANGED settings_at_init
  /\ parse' = NoParse
  /\ UNCHANGED poolVars

(***************************************************************************)
(* parse_loop_params, parse_lock_detect_params                             *)
(***************************************************************************)
ParseLoopParams(val) ==
  LET v         == conversions[val]
      formatted == Len(v) >= LoopParamsCount
      ok        == formatted /\ CoherentMsValid(CoherentMs(v[1]))
  IN /\ loop_params_string' =
          SavedString(loop_params_string, val, ok, LOOP_PARAMS_STRING_LEN)
     /\ loop_params_stage' = IF ok THEN LoopParamsOf(v) ELSE loop_params_stage
     /\ parse' = [op |-> "parse_loop_params", val |-> val,
                  count |-> Len(v), ret |-> ok,
                  log |-> IF ~formatted THEN "ill-formatted"
                          ELSE IF ~ok THEN "invalid coherent_ms"
                          ELSE "none"]

parse_loop_params ==
  /\ \E val \in LoopParamsInputs : ParseLoopParams(val)
  /\ call' = [NoCall EXCEPT !.op = "setting"]
  /\ UNCHANGED <<lock_detect_params, lock_detect_params_string,
                 conversions, settings_at_init, track_cn0_use_thres, track_cn0_drop_thres,
                 use_alias_detection, tracker_active, data, common, last_read,
                 updates_since_init>>
  /\ UNCHANGED poolVars

ParseLockDetectParams(val) ==
  LET v  == conversions[val]
      ok == Len(v) >= LockDetectParamsCount
  IN /\ lock_detect_params_string' =
          SavedString(lock_detect_params_string, val, ok,
                      LOCK_DETECT_PARAMS_STRING_LEN)
     /\ lock_detect_params' = IF ok THEN LockDetectParamsOf(v)
                              ELSE lock_detect_params
     /\ parse' = [op |-> "parse_lock_detect_params", val |-> val,
                  count |-> Len(v), ret |-> ok,
                  log |-> IF ok THEN "none" ELSE "ill-formatted"]

parse_lock_detect_params ==
  /\ \E val \in LockDetectInputs : ParseLockDetectParams(val)
  /\ call' = [NoCall EXCEPT !.op = "setting"]
  /\ UNCHANGED <<loop_params_stage, loop_params_string,
                 conversions, settings_at_init, track_cn0_use_thres, track_cn0_drop_thres,
                 use_alias_detection, tracker_active, data, common, last_read,
                 updates_since_init>>
  /\ UNCHANGED poolVars

(***************************************************************************)
(* The tracker under the tracking framework                                *)
(***************************************************************************)
\* SETTING_NOTIFY: the settings framework hands the default string to the
\* setting's parser when the setting is registered
RegisteredLoopParams ==
  LoopParamsOf(SscanfResults[LOOP_PARAMS_MED])
RegisteredLockDetectParams ==
  LockDetectParamsOf(SscanfResults[LD_PARAMS])

\* the state after track_gps_l2cm_register(): default settings parsed,
\* every tracker inactive, static data zero
InitTrack ==
  /\ loop_params_string = LOOP_PARAMS_MED
  /\ loop_params_stage = RegisteredLoopParams
  /\ lock_detect_params_string = LD_PARAMS
  /\ lock_detect_params = RegisteredLockDetectParams
  /\ parse = NoParse
  /\ conversions = SscanfResults
  /\ settings_at_init = [cn0_use |-> TRACK_CN0_USE_THRES_DEFAULT,
                         cn0_drop |-> TRACK_CN0_DROP_THRES_DEFAULT,
                         alias_detect |-> TRUE]
  /\ track_cn0_use_thres = TRACK_CN0_USE_THRES_DEFAULT
  /\ track_cn0_drop_thres = TRACK_CN0_DROP_THRES_DEFAULT
  /\ use_alias_detection = TRUE
  /\ tracker_active = FALSE
  /\ data = ZeroData
  /\ common = ZeroCommon
  /\ last_read = ZeroCs
  /\ updates_since_init = 0
  /\ call = NoCall

(***************************************************************************)
(* The channel pool and do_l1ca_to_l2cm_handover                           *)
(***************************************************************************)
Channels == 0..(NumChannels - 1)
Sats == {1, 2}

FreeSlot == [code |-> "NONE", sat |-> 0]

Sid(code, sat) == [code |-> code, sat |-> sat]

\* tracker_channel_available() / decoder_channel_available(): the slot is
\* not in use
TrackerChannelAvailable(i, sid) == tracker_channels[i] = FreeSlot

DecoderChannelAvailable(i, sid) == decoder_channels[i] = FreeSlot

\* l2c_cpbl = ~0: the positions of the bits set in the u32 mask
L2cCpbl == 0..31

\* 0 == (l2c_cpbl & ((u32)1 << sat)) is the "not capable" case
L2cCapable(sat) == sat \in L2cCpbl

\* mutant: the decode slot is not looked at
ChannelUsableTrackerOnly(i, sid) == TrackerChannelAvailable(i, sid)

\* if (tracker_channel_available(i, sid) && decoder_channel_available(i, sid))
ChannelUsable(i, sid) ==
  TrackerChannelAvailable(i, sid) /\ DecoderChannelAvailable(i, sid)

\* for (u8 i = 0; i < nap_track_n_channels; i++) ... break on the first hit;
\* -1 when the loop ends without one
RECURSIVE ScanFrom(_, _)
ScanFrom(i, sid) ==
  IF i >= NumChannels THEN -1
  ELSE IF ChannelUsable(i, sid) THEN i
  ELSE ScanFrom(i + 1, sid)

\* mutant: the scan keeps the last hit instead of breaking on the first
FindChannelLastHit(sid) ==
  LET usable == {i \in 0..(NumChannels - 1) : ChannelUsable(i, sid)}
  IN IF usable = {} THEN -1
     ELSE CHOOSE i \in usable : \A j \in usable : j <= i

FindChannel(sid) == ScanFrom(0, sid)

\* the two init calls of a handover that found a channel, in program order
HandoverInitCalls(id, sid, tracker_ok, decoder_ok) ==
  <<[fn |-> "tracker_channel_init", id |-> id, sid |-> sid,
     ok |-> tracker_ok],
    [fn |-> "decoder_channel_init", id |-> id, sid |-> sid,
     ok |-> decoder_ok]>>

\* mutant: a failed decoder init releases the tracking slot again
HandoverSlotsRollback(id, sid, tracker_ok, decoder_ok) ==
  [tracker |-> IF tracker_ok /\ decoder_ok
               THEN [tracker_channels EXCEPT ![id] = sid]
               ELSE tracker_channels,
   decoder |-> IF decoder_ok THEN [decoder_channels EXCEPT ![id] = sid]
               ELSE decoder_channels]

\* mutant: a failed tracker init ends the handover, the decode slot is
\* not initialised
HandoverSlotsTrackerAborts(id, sid, tracker_ok, decoder_ok) ==
  [tracker |-> IF tracker_ok THEN [tracker_channels EXCEPT ![id] = sid]
               ELSE tracker_channels,
   decoder |-> IF tracker_ok /\ decoder_ok
               THEN [decoder_channels EXCEPT ![id] = sid]
               ELSE decoder_channels]

\* the slots after the two init calls: each init that succeeds takes its
\* slot, a failure is logged and nothing is undone
HandoverSlots(id, sid, tracker_ok, decoder_ok) ==
  [tracker |-> IF tracker_ok THEN [tracker_channels EXCEPT ![id] = sid]
               ELSE tracker_channels,
   decoder |-> IF decoder_ok THEN [decoder_channels EXCEPT ![id] = sid]
               ELSE decoder_channels]

NoHandover == [op |-> "none",
               sat |-> 0,
               nap_channel |-> -1,
               channel_id |-> -1,
               log |-> <<>>,
               calls |-> <<>>]

\* one call of the handover: the log lines and the init calls it made
HandoverCall(sat, nap_channel, tracker_ok, decoder_ok) ==
  LET sid == Sid("L2CM", sat)
      id  == FindChannel(sid)
      h   == [NoHandover EXCEPT !.op = "handover", !.sat = sat,
                                !.nap_channel = nap_channel]
  IN IF ~L2cCapable(sat)
     THEN /\ handover' = [h EXCEPT !.log = <<"SV does not support L2C">>]
          /\ UNCHANGED <<tracker_channels, decoder_channels>>
     ELSE IF id = -1
     THEN /\ handover' = [h EXCEPT !.log = <<"No free channel">>]
          /\ UNCHANGED <<tracker_channels, decoder_channels>>
     ELSE /\ handover' =
               [h EXCEPT
                  !.channel_id = id,
                  !.log = <<IF tracker_ok THEN "L2 CM handover done"
                            ELSE "tracker channel init failed">>
                          \o (IF decoder_ok THEN <<>>
                              ELSE <<"decoder channel init failed">>),
                  !.calls = HandoverInitCalls(id, sid, tracker_ok,
                                              decoder_ok)]
          /\ tracker_channels' =
               HandoverSlots(id, sid, tracker_ok, decoder_ok).tracker
          /\ decoder_channels' =
               HandoverSlots(id, sid, tracker_ok, decoder_ok).decoder

\* called by the L1 C/A tracker of channel nap_channel when it has bit sync
do_l1ca_to_l2cm_handover ==
  /\ \E nap_channel \in Channels, sat \in Sats :
       /\ tracker_channels[nap_channel] = Sid("L1CA", sat)
       /\ \E tracker_ok \in BOOLEAN, decoder_ok \in BOOLEAN :
            HandoverCall(sat, nap_channel, tracker_ok, decoder_ok)
  /\ UNCHANGED trackVars

\* the acquisition path starts an L1 C/A channel on a free slot pair
StartL1caChannel ==
  /\ \E i \in Channels, sat \in Sats :
       /\ tracker_channels[i] = FreeSlot
       /\ decoder_channels[i] = FreeSlot
       /\ \A j \in Channels : tracker_channels[j] # Sid("L1CA", sat)
       /\ tracker_channels' = [tracker_channels EXCEPT ![i] = Sid("L1CA", sat)]
       /\ decoder_channels' = [decoder_channels EXCEPT ![i] = Sid("L1CA", sat)]
  /\ handover' = [NoHandover EXCEPT !.op = "start_l1ca"]
  /\ UNCHANGED trackVars

\* tracker_channel_disable(): the tracking slot goes back to the pool
TrackerChannelDisable ==
  /\ \E i \in Channels :
       /\ tracker_channels[i] # FreeSlot
       /\ tracker_channels' = [tracker_channels EXCEPT ![i] = FreeSlot]
  /\ handover' = [NoHandover EXCEPT !.op = "tracker_disable"]
  /\ UNCHANGED decoder_channels
  /\ UNCHANGED trackVars

\* decoder_channel_disable(): the decode slot goes back to the pool
DecoderChannelDisable ==
  /\ \E i \in Channels :
       /\ decoder_channels[i] # FreeSlot
       /\ decoder_channels' = [decoder_channels EXCEPT ![i] = FreeSlot]
  /\ handover' = [NoHandover EXCEPT !.op = "decoder_disable"]
  /\ UNCHANGED tracker_channels
  /\ UNCHANGED trackVars

\* the state after registration: every slot of the pool free
InitPool ==
  /\ tracker_channels = [i \in Channels |-> FreeSlot]
  /\ decoder_channels = [i \in Channels |-> FreeSlot]
  /\ handover = NoHandover

Init == InitTrack /\ InitPool

Next ==
  \/ tracker_gps_l2cm_init
  \/ UpdateShortCycle
  \/ UpdateLongCycle
  \/ tracker_gps_l2cm_disable
  \/ WriteCn0Use
  \/ WriteCn0Drop
  \/ WriteAliasDetect

Spec == Init /\ [][Next]_vars

NextHandover ==
  \/ do_l1ca_to_l2cm_handover
  \/ StartL1caChannel
  \/ TrackerChannelDisable
  \/ DecoderChannelDisable

SpecHandover == Init /\ [][NextHandover]_vars

\* the tracker while loop_params and lock_detect_params are written
NextSettings ==
  \/ parse_loop_params
  \/ parse_lock_detect_params
  \/ tracker_gps_l2cm_init
  \/ UpdateEarly
  \/ tracker_gps_l2cm_disable

SpecSettings == Init /\ [][NextSettings]_vars

\* the tracker while the plain settings are written, the settings in force
\* at each init remembered
NextConfig ==
  \/ InitObserved
  \/ UpdateEarly
  \/ tracker_gps_l2cm_disable
  \/ WriteCn0Use
  \/ WriteCn0Drop
  \/ WriteAliasDetect

SpecConfig == Init /\ [][NextConfig]_vars

(***************************************************************************)
(* Properties                                                              *)
(***************************************************************************)
IsShortCall == call.op = "update" /\ call.branch = "SHORT"
IsLongCall == call.op = "update" /\ call.branch = "LONG"

\* C1: init sets the scheduler to SHORT and every update call flips it: the
\* k-th update call after an init runs SHORT iff k is odd and LONG iff k is
\* even, and an init at any point restarts the sequence at SHORT.
C1_ShortLongAlternate ==
  /\ (call.op = "init" => data.short_cycle /\ updates_since_init = 0)
  /\ (call.op = "update" =>
        /\ (call.branch = "SHORT" <=> updates_since_init % 2 = 1)
        /\ (call.branch = "LONG" <=> updates_since_init % 2 = 0)
        /\ (data.short_cycle <=> updates_since_init % 2 = 0))

\* the fourth update call after an init is reached, and it was a LONG one
C1_Witness ==
  call.op = "update" /\ updates_since_init = 4 /\ call.branch = "LONG"

SumCs(s, l) == [i \in 1..3 |-> Corr(s[i].I + l[i].I, s[i].Q + l[i].Q)]

\* C2: in the LONG call of a SHORT+LONG pair with correlator reads s and l,
\* the accumulator data->cs, and what the bit sync, the C/N0 estimator, the
\* lock detector, the correlation output and the loop filter are given,
\* is s + l in every component; nothing of an earlier interval is in it.
C2_AccumulatorIsSum ==
  IsLongCall =>
    LET sum == SumCs(call.s, call.l)
    IN /\ data.cs = sum
       /\ call.sent = sum
       /\ call.bit_sync_in = sum[2].I
       /\ call.ld_in = sum[2]
       /\ call.cn0_in = Corr(CDiv(sum[2].I, data.int_ms),
                             CDiv(sum[2].Q, data.int_ms))
       /\ call.tl_in = <<sum[3], sum[2], sum[1]>>

\* the LONG call of a second pair, whose two reads differ
C2_Witness ==
  /\ IsLongCall
  /\ common.update_count = 2 * data.int_ms
  /\ call.s # call.l
  /\ data.cs = SumCs(call.s, call.l)

\* C3: a SHORT update call leaves cn0, carrier_freq, code_phase_rate,
\* update_count, the five event counters, the lock detector outputs and the
\* loop filter state unchanged, triggers no ambiguity reset, and issues
\* exactly one retune, of integration length 0 and with the unchanged
\* carrier frequency and code rate.
C3_ShortCallFrame ==
  [][(call'.op = "update" /\ call'.branch = "SHORT") =>
       /\ common' = common
       /\ data'.lock_detect = data.lock_detect
       /\ data'.tl_state = data.tl_state
       /\ call'.ambiguity = <<>>
       /\ call'.retunes = <<[carrier_freq |-> common.carrier_freq,
                             code_phase_rate |-> common.code_phase_rate,
                             int_ms |-> 0]>>
       /\ \A i \in 1..Len(call'.steps) :
            call'.steps[i] \in {"correlations_read", "alias_detect_first",
                                "tow_update", "retune"}]_vars

\* a SHORT call of a channel that has counted, holds pessimistic lock, and
\* whose loop filter frequency differs from the published one
C3_Witness ==
  /\ IsShortCall
  /\ common.update_count > 0
  /\ common.mode_change_count > 0
  /\ data.lock_detect.outp
  /\ data.tl_state.carr_freq # common.carrier_freq
  /\ Len(call.retunes) = 1

RetuneIsLast ==
  /\ Len(call.retunes) = 1
  /\ call.steps[Len(call.steps)] = "retune"
  /\ Cardinality({i \in 1..Len(call.steps) : call.steps[i] = "retune"}) = 1

\* C4, as stated: every LONG update call issues exactly one retune, as its
\* last action, whose integration-length argument is the full int_ms.
C4_RetuneFullLength ==
  IsLongCall => RetuneIsLast /\ call.retunes[1].int_ms = data.int_ms

\* C4, amended: every LONG update call issues exactly one retune, as its
\* last action, whose integration-length argument is int_ms - 1, the length
\* of the long cycle.
C4_RetuneLongLength ==
  IsLongCall => RetuneIsLast /\ call.retunes[1].int_ms = data.int_ms - 1

\* a LONG call that retuned with 19 ms at int_ms = 20
C4_Witness ==
  /\ IsLongCall
  /\ data.int_ms = L2C_COHERENT_INTEGRATION_TIME_MS
  /\ call.retunes = <<[carrier_freq |-> common.carrier_freq,
                       code_phase_rate |-> common.code_phase_rate,
                       int_ms |-> 19]>>

InSeq(x, seq) == \E i \in 1..Len(seq) : seq[i] = x

\* C5: in every LONG call, with cn0 the estimate of that call: cn0 < cn0_use
\* gives an ambiguity reset in the call and cn0_below_use_thres_count =
\* update_count at return; cn0 > cn0_drop gives cn0_above_drop_thres_count =
\* update_count; cn0 >= cn0_use gives no reset from the estimator and leaves
\* cn0_below_use_thres_count alone; cn0 <= cn0_drop leaves
\* cn0_above_drop_thres_count alone.
C5_Cn0Thresholds ==
  [][(call'.op = "update" /\ call'.branch = "LONG") =>
       /\ (common'.cn0 < track_cn0_use_thres' =>
             /\ InSeq("cn0", call'.ambiguity)
             /\ common'.cn0_below_use_thres_count = common'.update_count)
       /\ (common'.cn0 > track_cn0_drop_thres' =>
             common'.cn0_above_drop_thres_count = common'.update_count)
       /\ (common'.cn0 >= track_cn0_use_thres' =>
             /\ ~InSeq("cn0", call'.ambiguity)
             /\ common'.cn0_below_use_thres_count =
                  common.cn0_below_use_thres_count)
       /\ (common'.cn0 <= track_cn0_drop_thres' =>
             common'.cn0_above_drop_thres_count =
               common.cn0_above_drop_thres_count)]_vars

\* a second LONG call whose estimate is below cn0_use and not above
\* cn0_drop, with the two thresholds different: the reset is made, one
\* counter is stamped and the other keeps the stamp of the first call
C5_Witness ==
  /\ IsLongCall
  /\ track_cn0_use_thres # track_cn0_drop_thres
  /\ common.cn0 < track_cn0_use_thres
  /\ InSeq("cn0", call.ambiguity)
  /\ common.update_count = 2 * data.int_ms
  /\ common.cn0_below_use_thres_count = common.update_count
  /\ common.cn0_above_drop_thres_count = data.int_ms

\* C6: in a LONG call in which outp goes from true to false, an ambiguity
\* reset is triggered and ld_pess_unlocked_count = update_count at return;
\* the lock detector path resets only on that transition.
C6_PllStressOnFallingEdge ==
  [][(call'.op = "update" /\ call'.branch = "LONG") =>
       /\ (data.lock_detect.outp /\ ~data'.lock_detect.outp =>
             /\ InSeq("pll", call'.ambiguity)
             /\ common'.ld_pess_unlocked_count = common'.update_count)
       /\ (InSeq("pll", call'.ambiguity) =>
             data.lock_detect.outp /\ ~data'.lock_detect.outp)]_vars

\* a LONG call that lost pessimistic lock and reset the ambiguity for it
C6_Witness ==
  /\ IsLongCall
  /\ call.last_outp
  /\ ~data.lock_detect.outp
  /\ InSeq("pll", call.ambiguity)
  /\ common.ld_pess_unlocked_count = common.update_count

\* C7: when the alias detector runs in a LONG call and |err| exceeds the
\* threshold, that call triggers an ambiguity reset, sets mode_change_count
\* to update_count, and leaves the loop filter's carrier frequency at its
\* value after the loop filter update plus err, with carr_filt.y equal to
\* it; when |err| does not exceed the threshold the alias detector leaves
\* the loop filter state as the loop filter update made it.
C7_AliasCorrection ==
  IsLongCall /\ call.alias_ran =>
    IF Abs(call.err) > AliasThreshold(data.int_ms)
    THEN /\ InSeq("alias", call.ambiguity)
         /\ common.mode_change_count = common.update_count
         /\ data.tl_state.carr_freq = call.tl_updated.carr_freq + call.err
         /\ data.tl_state.carr_filt_y = data.tl_state.carr_freq
         /\ data.tl_state.code_freq = call.tl_updated.code_freq
    ELSE /\ ~InSeq("alias", call.ambiguity)
         /\ data.tl_state = call.tl_updated

\* a LONG call whose alias error was -13 Hz: the loop filter is shifted by
\* it while the published carrier frequency is the uncorrected one
C7_Witness ==
  /\ IsLongCall
  /\ call.alias_ran
  /\ call.err = -26
  /\ data.tl_state.carr_freq = common.carrier_freq - 26
  /\ common.mode_change_count = common.update_count

\* C8: the alias correction fires if and only if |err| > 250 / int_ms, the
\* exact quotient (12.5 Hz at int_ms = 20).
C8_ExactThreshold ==
  IsLongCall /\ call.alias_ran =>
    (InSeq("alias", call.ambiguity)
       <=> Abs(call.err) * data.int_ms > HalfHz(ALIAS_THRESHOLD_NUMERATOR))

\* C9: the alias detector's second-sample evaluation, and with it any alias
\* reset, mode_change_count update or loop filter correction, happens in a
\* LONG call only if alias detection is enabled and the lock detector, as
\* updated in that call, shows outo or outp; otherwise the alias detector
\* changes nothing in that call.
C9_AliasGate ==
  [][(call'.op = "update" /\ call'.branch = "LONG") =>
       LET open == use_alias_detection'
                   /\ (data'.lock_detect.outo \/ data'.lock_detect.outp)
       IN /\ (call'.alias_ran <=> open)
          /\ (InSeq("alias_detect_second", call'.steps) <=> open)
          /\ (~open =>
                /\ ~InSeq("alias", call'.ambiguity)
                /\ data'.tl_state = call'.tl_updated
                /\ (~call'.synced =>
                      common'.mode_change_count = common.mode_change_count))
     ]_vars

\* a second LONG call with optimistic lock and alias detection switched off:
\* no alias evaluation, mode_change_count still at the first call's stamp
C9_Witness ==
  /\ IsLongCall
  /\ ~use_alias_detection
  /\ data.lock_detect.outo
  /\ ~call.alias_ran
  /\ common.update_count = 2 * data.int_ms
  /\ common.mode_change_count = data.int_ms

\* C10: a handover that finds no index with both the tracking slot and the
\* decode slot free returns after logging, calls neither
\* tracker_channel_init nor decoder_channel_init, and changes no slot.
C10_NoFreeChannelNoEffect ==
  [][(/\ handover'.op = "handover"
      /\ \A i \in Channels : ~(tracker_channels[i] = FreeSlot
                               /\ decoder_channels[i] = FreeSlot)) =>
       /\ handover'.calls = <<>>
       /\ handover'.channel_id = -1
       /\ handover'.log = <<"No free channel">>
       /\ tracker_channels' = tracker_channels
       /\ decoder_channels' = decoder_channels]_vars

\* a handover that returned empty-handed although a tracking slot was free
\* (its decode slot was not)
C10_Witness ==
  /\ handover.op = "handover"
  /\ handover.calls = <<>>
  /\ handover.log = <<"No free channel">>
  /\ \E i \in Channels : tracker_channels[i] = FreeSlot
                         /\ decoder_channels[i] # FreeSlot

HandoverFoundChannel == handover.op = "handover" /\ handover.channel_id # -1

\* C11: in a handover that found a free index, tracker_channel_init is
\* called before decoder_channel_init, and when the decoder init fails the
\* tracking slot initialized in that handover is still allocated at return.
C11_TrackerFirstNoRollback ==
  HandoverFoundChannel =>
    /\ Len(handover.calls) = 2
    /\ handover.calls[1].fn = "tracker_channel_init"
    /\ handover.calls[2].fn = "decoder_channel_init"
    /\ (handover.calls[1].ok /\ ~handover.calls[2].ok =>
          /\ tracker_channels[handover.channel_id]
               = Sid("L2CM", handover.sat)
          /\ decoder_channels[handover.channel_id] = FreeSlot)

\* a handover whose tracker init succeeded and whose decoder init failed
C11_Witness ==
  /\ HandoverFoundChannel
  /\ handover.calls[1].ok
  /\ ~handover.calls[2].ok
  /\ handover.log = <<"L2 CM handover done", "decoder channel init failed">>
  /\ tracker_channels[handover.channel_id] = Sid("L2CM", handover.sat)

FreePairs == {i \in Channels : tracker_channels[i] = FreeSlot
                               /\ decoder_channels[i] = FreeSlot}

\* C12: the index a handover initializes is the lowest index at which the
\* tracking slot and the decode slot are both free; an index with only one
\* of them free is skipped; both init calls are for that one index, and no
\* slot at another index changes.
C12_LowestFreePair ==
  [][(handover'.op = "handover" /\ FreePairs # {}) =>
       LET id == CHOOSE i \in FreePairs : \A j \in FreePairs : i <= j
       IN /\ handover'.channel_id = id
          /\ Len(handover'.calls) = 2
          /\ handover'.calls[1].id = id
          /\ handover'.calls[2].id = id
          /\ handover'.calls[1].sid = Sid("L2CM", handover'.sat)
          /\ handover'.calls[2].sid = Sid("L2CM", handover'.sat)
          /\ \A j \in Channels \ {id} :
               /\ tracker_channels'[j] = tracker_channels[j]
               /\ decoder_channels'[j] = decoder_channels[j]]_vars

\* a handover that took index 1 with both slots, while index 0 had only its
\* decode slot free and index 2 was a free pair as well
C12_Witness ==
  /\ handover.op = "handover"
  /\ handover.channel_id = 1
  /\ tracker_channels[0] # FreeSlot
  /\ decoder_channels[0] = FreeSlot
  /\ tracker_channels[1] = Sid("L2CM", handover.sat)
  /\ decoder_channels[1] = Sid("L2CM", handover.sat)
  /\ 2 \in FreePairs

\* C13: at most one active tracking channel owns a given L2CM SignalId,
\* also after repeated handovers for the same satellite.
C13_OneOwnerPerSid ==
  \A sat \in Sats :
    Cardinality({i \in Channels : tracker_channels[i] = Sid("L2CM", sat)})
      <= 1

IsParseStep == parse'.op # "none"

\* C14: a settings parser that rejects its input returns false and leaves
\* the stored setting strings and the parsed parameter structs as they were
\* before the call
C14_RejectKeepsStored ==
  [][(IsParseStep /\ (parse'.log # "none" \/ ~parse'.ret)) =>
       /\ ~parse'.ret
       /\ loop_params_string' = loop_params_string
       /\ loop_params_stage' = loop_params_stage
       /\ lock_detect_params_string' = lock_detect_params_string
       /\ lock_detect_params' = lock_detect_params]_vars

\* a string that stops after eight numbers was refused while another tuning
\* than the default was stored
C14_Witness ==
  /\ parse.op = "parse_loop_params"
  /\ parse.val = LoopParamsCut
  /\ parse.count = 8
  /\ ~parse.ret
  /\ loop_params_string = LoopParamsNarrow
  /\ loop_params_stage.carr_bw = <<"1", "0">>

\* the number written before "ms" in a loop_params string
WrittenMs(val) == conversions[val][1]

\* C15: parse_loop_params accepts a well-formed string if and only if the
\* ms number written in it is 20
C15_AcceptsOnlyTwentyMs ==
  (parse.op = "parse_loop_params" /\ parse.count >= LoopParamsCount) =>
    (parse.ret <=> WrittenMs(parse.val) = L2C_COHERENT_INTEGRATION_TIME_MS)

LockShown == data.lock_detect.outo \/ data.lock_detect.outp

\* C16 as claimed: the thresholds and the alias-enable flag a LONG call acts
\* on are the values that were in force at the channel's last init
C16_UsesSettingsAtInit ==
  IsLongCall =>
    /\ (InSeq("cn0", call.ambiguity) <=> common.cn0 < settings_at_init.cn0_use)
    /\ (common.cn0_above_drop_thres_count = common.update_count
          <=> common.cn0 > settings_at_init.cn0_drop)
    /\ (call.alias_ran <=> (settings_at_init.alias_detect /\ LockShown))

\* C16, amended: the thresholds and the alias-enable flag a LONG call acts
\* on are the values of cn0_use, cn0_drop and alias_detect in force when the
\* call is made; a write made after the init takes effect at the running
\* channel's next LONG call
C16_UsesSettingsInForce ==
  IsLongCall =>
    /\ (InSeq("cn0", call.ambiguity) <=> common.cn0 < track_cn0_use_thres)
    /\ (common.cn0_above_drop_thres_count = common.update_count
          <=> common.cn0 > track_cn0_drop_thres)
    /\ (call.alias_ran <=> (use_alias_detection /\ LockShown))

\* a LONG call of a channel initialised with cn0_use = 31 and alias
\* detection on, made after cn0_use was raised to 32 and alias detection
\* switched off: an estimate of 31 resets the ambiguity and the alias
\* detector is not run although the lock detector shows lock
C16_Witness ==
  /\ IsLongCall
  /\ settings_at_init.cn0_use = 31
  /\ track_cn0_use_thres = 32
  /\ common.cn0 = 31
  /\ InSeq("cn0", call.ambiguity)
  /\ settings_at_init.alias_detect
  /\ ~use_alias_detection
  /\ LockShown
  /\ ~call.alias_ran

\* the lock detector constants of a lock detector state or of the setting
LockConstants(l) == [k1 |-> l.k1, k2 |-> l.k2, lp |-> l.lp, lo |-> l.lo]

\* C17: the loop filter tuning, int_ms and the lock detector constants of a
\* channel are loaded by its init from the settings as they are then; a
\* write of loop_params or lock_detect_params changes nothing in the
\* channel's private state, and the update calls keep what the init loaded
C17_ParamsLoadedAtInit ==
  [][/\ (IsParseStep => (data' = data /\ common' = common))
     /\ (call'.op = "init" =>
           /\ data'.int_ms = loop_params_stage.coherent_ms
           /\ data'.tl_state.params = LoopTuning(loop_params_stage)
           /\ LockConstants(data'.lock_detect) = lock_detect_params)
     /\ (call'.op = "update" =>
           /\ data'.int_ms = data.int_ms
           /\ data'.tl_state.params = data.tl_state.params
           /\ LockConstants(data'.lock_detect) = LockConstants(data.lock_detect))
    ]_vars

\* a LONG call of a channel initialised with the default parameters, made
\* after both settings were written with other values
C17_Witness ==
  /\ IsLongCall
  /\ data.tl_state.params = LoopTuning(RegisteredLoopParams)
  /\ loop_params_stage.carr_bw # data.tl_state.params.carr_bw
  /\ LockConstants(data.lock_detect) = RegisteredLockDetectParams
  /\ lock_detect_params.lp # data.lock_detect.lp

Pos(x, seq) == CHOOSE i \in 1..Len(seq) : seq[i] = x

\* both steps were made, a before b
Before(a, b, seq) == InSeq(a, seq) /\ InSeq(b, seq) /\ Pos(a, seq) < Pos(b, seq)

\* C18: in every LONG call the TOW update and the bit-sync update come
\* first, then the CN0 estimator, the lock detector, the publication of the
\* correlations, the loop filter, the alias detector when it is evaluated,
\* and the retune last; the alias detector's gate is open only on lock
\* detector outputs of the same call, and the retune carries the code rate
\* the loop filter produced in the call
C18_LongCallOrder ==
  [][(call'.op = "update" /\ call'.branch = "LONG") =>
       LET s == call'.steps
       IN /\ Before("tow_update", "cn0_est", s)
          /\ Before("bit_sync_update", "cn0_est", s)
          /\ Before("cn0_est", "lock_detect_update", s)
          /\ Before("lock_detect_update", "correlations_send", s)
          /\ Before("correlations_send", "aided_tl_update", s)
          /\ Before("aided_tl_update", "retune", s)
          /\ s[Len(s)] = "retune"
          /\ (InSeq("alias_detect_second", s) =>
                /\ Before("aided_tl_update", "alias_detect_second", s)
                /\ Before("alias_detect_second", "retune", s)
                /\ (data'.lock_detect.outo \/ data'.lock_detect.outp))
          /\ call'.retunes[1].code_phase_rate =
               call'.tl_updated.code_freq + GPS_CA_CHIPPING_RATE
     ]_vars

\* a LONG call that evaluated the alias detector on a pessimistic lock the
\* lock detector did not show before the call
C18_Witness ==
  /\ IsLongCall
  /\ InSeq("alias_detect_second", call.steps)
  /\ ~call.last_outp
  /\ data.lock_detect.outp
  /\ ~data.lock_detect.outo

\* C19: at the end of every LONG call the carrier frequency passed to the
\* retune and published in the common data equals the loop filter's carrier
\* frequency state, any alias correction of the call included
C19_RetuneCarriesCorrection ==
  IsLongCall =>
    /\ call.retunes[1].carrier_freq = data.tl_state.carr_freq
    /\ common.carrier_freq = data.tl_state.carr_freq

\* C20: from registration on, whatever loop_params writes, inits and
\* updates are made, the coherent_ms an init divides by is 20, a channel's
\* int_ms is 20 at every update call and is changed by an init only, so
\* that int_ms and int_ms - 1 are never zero in an update
C20_IntMsConstant ==
  /\ [](loop_params_stage.coherent_ms = L2C_COHERENT_INTEGRATION_TIME_MS)
  /\ [][/\ (call'.op = "init" =>
              /\ loop_params_stage.coherent_ms # 0
              /\ data'.int_ms = L2C_COHERENT_INTEGRATION_TIME_MS)
        /\ (call'.op = "update" =>
              /\ data.int_ms = L2C_COHERENT_INTEGRATION_TIME_MS
              /\ data.int_ms # 0
              /\ U8(data.int_ms - 1) # 0)
        /\ (call'.op # "init" => data'.int_ms = data.int_ms)]_vars

\* a LONG call of a channel initialised after another tuning was written
C20_Witness ==
  /\ IsLongCall
  /\ loop_params_string = LoopParamsNarrow
  /\ data.tl_state.params.carr_bw = <<"1", "0">>
  /\ data.int_ms = L2C_COHERENT_INTEGRATION_TIME_MS

\* the five event counters of the common data
EventCounters(c) ==
  <<c.cn0_above_drop_thres_count, c.cn0_below_use_thres_count,
    c.ld_opti_locked_count, c.ld_pess_unlocked_count, c.mode_change_count>>

\* C21: a SHORT call leaves update_count alone and a LONG call adds exactly
\* int_ms to it; an update call leaves an event counter alone or assigns it
\* the update_count of the call; and, the counters of a channel starting at
\* values <= update_count, every event counter is <= update_count in every
\* reachable state
C21_CountersBelowUpdateCount ==
  /\ [](\A i \in 1..5 : EventCounters(common)[i] <= common.update_count)
  /\ [][/\ ((call'.op = "update" /\ call'.branch = "SHORT") =>
              /\ common'.update_count = common.update_count
              /\ EventCounters(common') = EventCounters(common))
        /\ ((call'.op = "update" /\ call'.branch = "LONG") =>
              /\ common'.update_count = common.update_count + data.int_ms
              /\ \A i \in 1..5 :
                   EventCounters(common')[i]
                     \in {EventCounters(common)[i], common'.update_count})
       ]_vars

\* a SHORT call that follows two LONG calls: the count stands at twice
\* int_ms, one counter carries the stamp of the first LONG call, one the
\* stamp of the second, one was never assigned
C21_Witness ==
  /\ IsShortCall
  /\ common.update_count = 2 * data.int_ms
  /\ common.ld_opti_locked_count = data.int_ms
  /\ common.cn0_below_use_thres_count = common.update_count
  /\ common.mode_change_count = 0

\* C22: in a handover that found a free index and whose tracking-slot
\* initialisation failed, the failure is logged, the decode-slot
\* initialisation is still called with the same index and SignalId, the
\* tracking slot stays as it was and a successful decode-slot
\* initialisation leaves the decode slot allocated for the target signal
C22_TrackerFailureStillInitsDecoder ==
  [][(/\ handover'.op = "handover"
      /\ handover'.channel_id # -1
      /\ ~handover'.calls[1].ok) =>
       LET id  == handover'.channel_id
           sid == Sid("L2CM", handover'.sat)
       IN /\ InSeq("tracker channel init failed", handover'.log)
          /\ Len(handover'.calls) = 2
          /\ handover'.calls[2].fn = "decoder_channel_init"
          /\ handover'.calls[2].id = id
          /\ handover'.calls[2].sid = sid
          /\ tracker_channels'[id] = tracker_channels[id]
          /\ tracker_channels'[id] = FreeSlot
          /\ (handover'.calls[2].ok => decoder_channels'[id] = sid)
          /\ (~handover'.calls[2].ok =>
                decoder_channels'[id] = decoder_channels[id])]_vars

\* a handover returned with the decode slot allocated for the L2CM signal
\* and the tracking slot of the same index free
C22_Witness ==
  /\ HandoverFoundChannel
  /\ ~handover.calls[1].ok
  /\ handover.calls[2].ok
  /\ decoder_channels[handover.channel_id] = Sid("L2CM", handover.sat)
  /\ tracker_channels[handover.channel_id] = FreeSlot

====
